---- MODULE Spec2Model ----
(***************************************************************************)
(* Model of src/server.py: the /upload/ document-to-image pipeline         *)
(* (upload_file, save_temp_file, convert_pdf_to_images,                    *)
(* convert_pptx_to_images, upload_images_to_supabase).                     *)
(*                                                                         *)
(* Paths and URLs are sequences of string tokens; f-strings and            *)
(* os.path.join are concatenations of token sequences.  uuid4() is         *)
(* modelled as returning a value that belongs to the call alone.           *)
(* The asyncio event loop runs one coroutine segment at a time (loop);     *)
(* the conversion functions run on executor threads and interleave freely. *)
(***************************************************************************)
EXTENDS Integers, Sequences, FiniteSets, TLC

\* ---------------------------------------------------------------- bounds
\* number of requests of one behaviour, numbered in order of arrival
NumReqs == 2
\* number of pages the renderer decodes in one behaviour, all requests together
MaxPages == 2

Reqs == 1..NumReqs

\* ------------------------------------------------------------- constants
UPLOAD_DIR == <<"uploads/">>
SUPABASE_URL == <<"https://project.supabase.co">>

PDF_TYPE == "application/pdf"
PPTX_TYPE == "application/vnd.openxmlformats-officedocument.presentationml.presentation"
\* a membership test that also lets plain text through
valid_typesLoose == {PDF_TYPE, PPTX_TYPE, "text/plain"}
valid_types == {PDF_TYPE, PPTX_TYPE}

\* the uploads a client may send: declared media type and original filename
Uploads ==
    { [content_type |-> PDF_TYPE,    filename |-> <<"../", "doc", ".pdf">>],
      [content_type |-> PPTX_TYPE,   filename |-> <<"deck", ".pptx">>],
      [content_type |-> PPTX_TYPE,   filename |-> <<"deck", ".PPTX">>],
      [content_type |-> "text/plain", filename |-> <<"notes", ".txt">>] }

DirTokens == {"uploads/", "../", "images/", "/"}
ExtTokens == {".pptx", ".PPTX", ".pdf", ".png", ".txt"}

\* ---------------------------------------------------------- pure helpers
RECURSIVE LastDir(_, _)
\* index of the last directory token of p at or below position i (0 if none)
LastDir(p, i) ==
    IF i = 0 THEN 0
    ELSE IF p[i] \in DirTokens THEN i ELSE LastDir(p, i - 1)

\* Path(x).name and os.path.basename(x): the part after the last separator
BaseName(p) == SubSeq(p, LastDir(p, Len(p)) + 1, Len(p))

\* str.replace(".pptx", ".pdf"): every occurrence, case-sensitive
ReplacePptx(p) == [i \in 1..Len(p) |-> IF p[i] = ".pptx" THEN ".pdf" ELSE p[i]]

\* name without its last extension
Stem(n) ==
    IF Len(n) > 1 /\ n[Len(n)] \in ExtTokens THEN SubSeq(n, 1, Len(n) - 1) ELSE n

\* file written by `libreoffice --convert-to pdf <p> --outdir uploads`
LibreOfficeOut(p) == UPLOAD_DIR \o Stem(BaseName(p)) \o <<".pdf">>

\* str(uuid4()) of the k-th call made by request r
Uuid(r, k) == "uuid" \o ToString(r) \o "-" \o ToString(k)

\* the staged name built without the random prefix
TempPathNoUuid(u, fname) == UPLOAD_DIR \o BaseName(fname)
\* f"{uuid4()}_{safe_name}" joined to UPLOAD_DIR
TempPath(u, fname) == UPLOAD_DIR \o <<u, "_">> \o BaseName(fname)

\* a page name counted from 1
ImgPathOneBased(pdf_path, idx) == pdf_path \o <<"_", ToString(idx + 1), ".png">>
\* f"{pdf_path}_{idx}.png"
ImgPath(pdf_path, idx) == pdf_path \o <<"_", ToString(idx), ".png">>

\* f"images/{folder_id}/" + os.path.basename(img_path)
DestPath(folder, img_path) == <<"images/", folder, "/">> \o BaseName(img_path)

\* f"{SUPABASE_URL}/storage/v1/object/public/presentations/{dest_path}"
PublicUrl(dest_path) ==
    SUPABASE_URL \o <<"/storage/v1/object/public/presentations/">> \o dest_path

\* ------------------------------------------------------------------ state
VARIABLES
    pc,             \* phase of each request
    ctype,          \* file.content_type
    filename,       \* file.filename
    file_path,      \* staged path returned by save_temp_file
    folder_id,      \* publication group id
    step,           \* position of the executor thread inside Converting
    images,         \* number of decoded in-memory images (-1: none yet)
    image_paths,    \* image_paths of convert_pdf_to_images / upload_file
    public_urls,    \* public_urls inside upload_images_to_supabase
    status,         \* HTTP status of the response (0: none yet)
    detail,         \* error detail of the response
    body,           \* image_urls of the JSON response
    disk,           \* paths existing in the local file system
    store,          \* object paths in bucket "presentations"
    loop,           \* request whose coroutine runs on the event loop (0: idle)
    touched,        \* per request: local paths it wrote, read or deleted
    objects,        \* per request: object paths it uploaded
    removals,       \* per request: number of os.remove(file_path) calls
    transcode       \* per request: outcome of the libreoffice process

vars == <<pc, ctype, filename, file_path, folder_id, step, images, image_paths,
          public_urls, status, detail, body, disk, store, loop,
          touched, objects, removals, transcode>>

reqVars == <<ctype, filename>>

\* state of the report endpoints (lines 102-176 and 208-236)
VARIABLES
    session,        \* table "session": row of each id
    related,        \* per session id: the related tables that hold rows for it
    reports,        \* object paths in bucket "reports"
    call,           \* the call of /generate-report or /cleanup-unused-sessions
                    \* being served, or the last one served
    served,         \* number of calls received so far
    failed,         \* session ids for which generate_report raised after its
                    \* deactivation step
    faults          \* number of Supabase requests that raised or came back empty

repVars == <<session, related, reports, call, served, failed, faults>>

Init ==
    /\ pc = [r \in Reqs |-> "Idle"]
    /\ ctype = [r \in Reqs |-> "none"]
    /\ filename = [r \in Reqs |-> <<>>]
    /\ file_path = [r \in Reqs |-> <<>>]
    /\ folder_id = [r \in Reqs |-> "none"]
    /\ step = [r \in Reqs |-> "none"]
    /\ images = [r \in Reqs |-> -1]
    /\ image_paths = [r \in Reqs |-> <<>>]
    /\ public_urls = [r \in Reqs |-> <<>>]
    /\ status = [r \in Reqs |-> 0]
    /\ detail = [r \in Reqs |-> "none"]
    /\ body = [r \in Reqs |-> <<>>]
    /\ disk = {}
    /\ store = {}
    /\ loop = 0
    /\ touched = [r \in Reqs |-> {}]
    /\ objects = [r \in Reqs |-> {}]
    /\ removals = [r \in Reqs |-> 0]
    /\ transcode = [r \in Reqs |-> "none"]

\* the request ends with an error response
Fail(r, code, msg) ==
    /\ pc' = [pc EXCEPT ![r] = "Failed"]
    /\ status' = [status EXCEPT ![r] = code]
    /\ detail' = [detail EXCEPT ![r] = msg]

\* ------------------------------------------------ upload_file, lines 180-198
\* the event loop starts the handler for a new request
Receive(r) ==
    /\ UNCHANGED repVars
    /\ pc[r] = "Idle"
    /\ loop = 0
    /\ \A q \in Reqs : q < r => pc[q] # "Idle"
    /\ \E file \in Uploads :
          /\ ctype' = [ctype EXCEPT ![r] = file.content_type]
          /\ filename' = [filename EXCEPT ![r] = file.filename]
    /\ pc' = [pc EXCEPT ![r] = "Received"]
    /\ loop' = r
    /\ UNCHANGED <<file_path, folder_id, step, images, image_paths, public_urls,
                   status, detail, body, disk, store, touched,
                   objects, removals, transcode>>

\* lines 187-188
RejectType(r) ==
    /\ UNCHANGED repVars
    /\ pc[r] = "Received"
    /\ loop = r
    /\ ctype[r] \notin valid_types
    /\ Fail(r, 400, "Unsupported file type")
    /\ loop' = 0
    /\ UNCHANGED <<reqVars, file_path, folder_id, step, images, image_paths,
                   public_urls, body, disk, store, touched, objects,
                   removals, transcode>>

\* save_temp_file, lines 54-59 (called at line 190)
save_temp_file(r) ==
    /\ UNCHANGED repVars
    /\ pc[r] = "Received"
    /\ loop = r
    /\ ctype[r] \in valid_types
    /\ LET p == TempPath(Uuid(r, 1), filename[r]) IN
          /\ \/ /\ file_path' = [file_path EXCEPT ![r] = p]
                /\ disk' = disk \cup {p}
                /\ touched' = [touched EXCEPT ![r] = @ \cup {p}]
                /\ pc' = [pc EXCEPT ![r] = "Staged"]
                /\ loop' = loop
                /\ UNCHANGED <<status, detail>>
             \* open() or copyfileobj raises: the exception leaves upload_file
             \/ /\ \E created \in BOOLEAN :
                      /\ disk' = IF created THEN disk \cup {p} ELSE disk
                      /\ touched' = IF created
                                    THEN [touched EXCEPT ![r] = @ \cup {p}]
                                    ELSE touched
                /\ Fail(r, 500, "Internal Server Error")
                /\ loop' = 0
                /\ UNCHANGED file_path
    /\ UNCHANGED <<reqVars, folder_id, step, images, image_paths, public_urls,
                   body, store, objects, removals, transcode>>

\* a group id computed once for the whole process
FolderIdShared(r) == "uuid0"
\* line 191: folder_id = str(uuid4())
FolderId(r) == Uuid(r, 2)

\* a conversion called directly: the coroutine keeps the event loop
DispatchBlocking(r) ==
    /\ UNCHANGED repVars
    /\ pc[r] = "Staged"
    /\ loop = r
    /\ folder_id' = [folder_id EXCEPT ![r] = FolderId(r)]
    /\ pc' = [pc EXCEPT ![r] = "Converting"]
    /\ step' = [step EXCEPT ![r] =
                   IF ctype[r] = PDF_TYPE THEN "render" ELSE "transcode"]
    /\ loop' = r
    /\ UNCHANGED <<reqVars, file_path, images, image_paths, public_urls, status,
                   detail, body, disk, store, touched, objects, removals, transcode>>
\* lines 191-198: folder_id, then the conversion is handed to the executor
Dispatch(r) ==
    /\ UNCHANGED repVars
    /\ pc[r] = "Staged"
    /\ loop = r
    /\ folder_id' = [folder_id EXCEPT ![r] = FolderId(r)]
    /\ pc' = [pc EXCEPT ![r] = "Converting"]
    /\ step' = [step EXCEPT ![r] =
                   IF ctype[r] = PDF_TYPE THEN "render" ELSE "transcode"]
    /\ loop' = 0
    /\ UNCHANGED <<reqVars, file_path, images, image_paths, public_urls, status,
                   detail, body, disk, store, touched, objects, removals, transcode>>

\* ------------------------------------------------------- executor thread
\* the document handed to convert_from_path
pdf_path(r) ==
    IF ctype[r] = PDF_TYPE THEN file_path[r] ELSE ReplacePptx(file_path[r])

\* detail of the error response when convert_pdf_to_images fails at `site`:
\* convert_pptx_to_images wraps every exception (lines 81-82); a direct call
\* wraps only convert_from_path (lines 64-65)
ConvDetail(r, site) ==
    IF ctype[r] = PDF_TYPE
    THEN (IF site = "render" THEN "PDF conversion failed"
                             ELSE "Internal Server Error")
    ELSE "PPTX conversion failed"

\* the conversion function raises: the exception waits in the future
Raise(r, msg) ==
    /\ step' = [step EXCEPT ![r] = "raised"]
    /\ detail' = [detail EXCEPT ![r] = msg]

\* convert_pptx_to_images, lines 75-79: subprocess.run(libreoffice, check=True)
Transcode(r) ==
    /\ UNCHANGED repVars
    /\ pc[r] = "Converting"
    /\ step[r] = "transcode"
    /\ \/ \* non-zero exit: CalledProcessError, wrapped at lines 81-82
          /\ transcode' = [transcode EXCEPT ![r] = "nonzero"]
          /\ Raise(r, "PPTX conversion failed")
          /\ UNCHANGED <<disk, touched>>
       \/ \* exit 0 without an output file
          /\ transcode' = [transcode EXCEPT ![r] = "no_output"]
          /\ step' = [step EXCEPT ![r] = "render"]
          /\ touched' = [touched EXCEPT ![r] = @ \cup {file_path[r]}]
          /\ UNCHANGED <<disk, detail>>
       \/ \* exit 0, the PDF is written into UPLOAD_DIR
          /\ file_path[r] \in disk
          /\ transcode' = [transcode EXCEPT ![r] = "ok"]
          /\ step' = [step EXCEPT ![r] = "render"]
          /\ disk' = disk \cup {LibreOfficeOut(file_path[r])}
          /\ touched' = [touched EXCEPT ![r] =
                            @ \cup {file_path[r], LibreOfficeOut(file_path[r])}]
          /\ UNCHANGED detail
    /\ UNCHANGED <<pc, reqVars, file_path, folder_id, images, image_paths,
                   public_urls, status, body, store, loop, objects,
                   removals>>

\* pages decoded so far
Decoded == LET RECURSIVE Sum(_)
               Sum(n) == IF n = 0 THEN 0
                         ELSE Sum(n - 1) + (IF images[n] > 0 THEN images[n] ELSE 0)
           IN Sum(NumReqs)

\* convert_pdf_to_images, lines 62-66: convert_from_path(pdf_path)
Render(r) ==
    /\ UNCHANGED repVars
    /\ pc[r] = "Converting"
    /\ step[r] = "render"
    /\ \/ \* missing, corrupt or non-PDF input
          /\ Raise(r, ConvDetail(r, "render"))
          /\ touched' = IF pdf_path(r) \in disk
                        THEN [touched EXCEPT ![r] = @ \cup {pdf_path(r)}]
                        ELSE touched
          /\ UNCHANGED images
       \/ \* the file exists and decodes into n pages
          /\ pdf_path(r) \in disk
          /\ \E n \in 1..(MaxPages - Decoded) :
                /\ images' = [images EXCEPT ![r] = n]
                /\ step' = [step EXCEPT ![r] = "save"]
          /\ touched' = [touched EXCEPT ![r] = @ \cup {pdf_path(r)}]
          /\ UNCHANGED detail
    /\ UNCHANGED <<pc, reqVars, file_path, folder_id, image_paths, public_urls,
                   status, body, disk, store, loop, objects, removals,
                   transcode>>

\* convert_pdf_to_images, lines 67-71: one iteration of the save loop
SavePage(r) ==
    /\ UNCHANGED repVars
    /\ pc[r] = "Converting"
    /\ step[r] = "save"
    /\ LET idx == Len(image_paths[r])
           img_path == ImgPath(pdf_path(r), idx)
       IN \/ \* image.save succeeds
             /\ disk' = disk \cup {img_path}
             /\ touched' = [touched EXCEPT ![r] = @ \cup {img_path}]
             /\ image_paths' = [image_paths EXCEPT ![r] = Append(@, img_path)]
             /\ step' = [step EXCEPT ![r] =
                            IF idx + 1 = images[r] THEN "returned" ELSE "save"]
             /\ UNCHANGED detail
          \/ \* image.save raises; Image.save removes the file it created
             /\ Raise(r, ConvDetail(r, "save"))
             /\ UNCHANGED <<disk, touched, image_paths>>
    /\ UNCHANGED <<pc, reqVars, file_path, folder_id, images, public_urls,
                   status, body, store, loop, objects, removals,
                   transcode>>

\* ------------------------------------------------ upload_file, lines 199-205
\* a cleanup that also removes the PDF written next to the staged file
CleanupWithPdf(d, p, s) == d \ {p, LibreOfficeOut(p)}
\* a cleanup that runs only when the conversion returned
CleanupOnSuccess(d, p, s) == IF s = "raised" THEN d ELSE d \ {p}
\* lines 199-201: the disk after the finally block, conversion ended as s
Cleanup(d, p, s) == IF p \in d THEN d \ {p} ELSE d

\* a handler that swallows the conversion error and goes on
AfterAwaitSwallow(s) == "Uploading"
\* lines 194-203: the exception of the awaited future leaves upload_file
AfterAwait(s) == IF s = "raised" THEN "Failed" ELSE "Uploading"

\* the coroutine resumes after the await: the finally block, then line 203
Finally(r) ==
    /\ UNCHANGED repVars
    /\ pc[r] = "Converting"
    /\ step[r] \in {"returned", "raised"}
    /\ loop = 0
    /\ disk' = Cleanup(disk, file_path[r], step[r])
    /\ removals' = [removals EXCEPT ![r] = IF disk' # disk THEN @ + 1 ELSE @]
    /\ touched' = [touched EXCEPT ![r] = @ \cup {file_path[r]}]
    /\ IF AfterAwait(step[r]) = "Failed"
       THEN /\ Fail(r, 500, detail[r])
            /\ loop' = 0
       ELSE /\ pc' = [pc EXCEPT ![r] = "Uploading"]
            /\ loop' = r
            /\ UNCHANGED <<status, detail>>
    /\ UNCHANGED <<reqVars, file_path, folder_id, step, images, image_paths,
                   public_urls, body, store, objects, transcode>>

\* an upload loop that forgets os.remove
UploadOkKeepsFile(r, img_path, dest_path) ==
    /\ store' = store \cup {dest_path}
    /\ objects' = [objects EXCEPT ![r] = @ \cup {dest_path}]
    /\ public_urls' = [public_urls EXCEPT ![r] = Append(@, PublicUrl(dest_path))]
    /\ touched' = [touched EXCEPT ![r] = @ \cup {img_path}]
    /\ UNCHANGED <<pc, status, detail, loop, body, disk>>
\* lines 92 and 95-97: the upload succeeds
UploadOk(r, img_path, dest_path) ==
    /\ store' = store \cup {dest_path}
    /\ objects' = [objects EXCEPT ![r] = @ \cup {dest_path}]
    /\ public_urls' = [public_urls EXCEPT ![r] = Append(@, PublicUrl(dest_path))]
    /\ disk' = disk \ {img_path}
    /\ touched' = [touched EXCEPT ![r] = @ \cup {img_path}]
    /\ UNCHANGED <<pc, status, detail, loop, body>>

\* an upload error answered with the URLs built so far
UploadRaisesPartial(r, img_path) ==
    /\ Fail(r, 500, "Image upload failed")
    /\ body' = [body EXCEPT ![r] = public_urls[r]]
    /\ loop' = 0
    /\ touched' = [touched EXCEPT ![r] = @ \cup {img_path}]
    /\ UNCHANGED <<public_urls, disk, store, objects>>
\* lines 93-94: the upload raises
UploadRaises(r, img_path) ==
    /\ Fail(r, 500, "Image upload failed")
    /\ loop' = 0
    /\ touched' = [touched EXCEPT ![r] = @ \cup {img_path}]
    /\ UNCHANGED <<public_urls, disk, store, objects, body>>

\* upload_images_to_supabase, lines 87-97: one iteration of the loop
UploadPage(r) ==
    /\ UNCHANGED repVars
    /\ pc[r] = "Uploading"
    /\ loop = r
    /\ Len(public_urls[r]) < Len(image_paths[r])
    /\ LET img_path == image_paths[r][Len(public_urls[r]) + 1]
           dest_path == DestPath(folder_id[r], img_path)
       IN IF img_path \notin disk
          THEN \* open() raises FileNotFoundError
               /\ Fail(r, 500, "Internal Server Error")
               /\ loop' = 0
               /\ UNCHANGED <<public_urls, disk, store, touched, objects, body>>
          ELSE \/ UploadOk(r, img_path, dest_path)
               \/ UploadRaises(r, img_path)
    /\ UNCHANGED <<reqVars, file_path, folder_id, step, images, image_paths,
                   removals, transcode>>

\* lines 98 and 203-205: the loop is over, the URLs are returned
UploadReturn(r) ==
    /\ UNCHANGED repVars
    /\ pc[r] = "Uploading"
    /\ loop = r
    /\ Len(public_urls[r]) = Len(image_paths[r])
    /\ pc' = [pc EXCEPT ![r] = "Completed"]
    /\ status' = [status EXCEPT ![r] = 200]
    /\ body' = [body EXCEPT ![r] = public_urls[r]]
    /\ loop' = 0
    /\ UNCHANGED <<reqVars, file_path, folder_id, step, images, image_paths,
                   public_urls, detail, disk, store, touched, objects,
                   removals, transcode>>

Next ==
    \E r \in Reqs :
        \/ Receive(r)
        \/ RejectType(r)
        \/ save_temp_file(r)
        \/ Dispatch(r)
        \/ Transcode(r)
        \/ Render(r)
        \/ SavePage(r)
        \/ Finally(r)
        \/ UploadPage(r)
        \/ UploadReturn(r)

\* =====================================================================
\* generate_report and cleanup_unused_sessions, lines 102-176 and 208-236
\* =====================================================================
\* number of rows of table "session"
NumSessions == 2
\* number of calls of the two endpoints in one behaviour, served one
\* after the other
NumCalls == 2
\* number of Supabase requests that raise or find no data in one behaviour
MaxFaults == 1

Sessions == 1..NumSessions
\* values of the user_id query parameter and of session.teacher_id
Teachers == {"teacher-a", "teacher-b"}
\* the tables cleaned at lines 158-170, in the order of the code
Tables == <<"poll-response", "attendance", "leaderboard">>

\* a handler that cleans the related tables before the report is stored
ReportStepsDeleteFirst ==
    <<"deactivate", "fetch", "delete1", "delete2", "delete3", "upload", "url",
      "record", "return">>
\* the steps of generate_report in the order of lines 105-176
ReportSteps ==
    <<"deactivate", "fetch", "upload", "url", "record", "delete1", "delete2",
      "delete3", "return">>

\* the step after position at
StepAfter(at) ==
    LET i == CHOOSE k \in 1..Len(ReportSteps) : ReportSteps[k] = at
    IN ReportSteps[i + 1]

\* file_path = f"reports/report_session_{session_id}.csv", lines 128-129
ReportPath(sid) == <<"reports/", "report_session_", ToString(sid), ".csv">>

\* get_public_url of bucket "reports", line 143
ReportUrl(path) ==
    SUPABASE_URL \o <<"/storage/v1/object/public/reports/">> \o path

NoCall ==
    [ kind |-> "none", user |-> "none", sid |-> 0, at |-> "none",
      public_url |-> <<>>, active_sessions |-> <<>>, idx |-> 0,
      cleaned |-> <<>>, status |-> 0, detail |-> "none", count |-> 0,
      attempts |-> <<>>, raised |-> {}, deleted |-> {}, skipped |-> {},
      nomatch |-> FALSE, stale |-> {} ]

\* no call of the report endpoints is made
ReportIdle ==
    /\ session = [s \in Sessions |->
                    [exists |-> TRUE, active |-> TRUE, report_url |-> <<>>,
                     teacher_id |-> "teacher-a"]]
    /\ related = [s \in Sessions |-> {}]
    /\ reports = {}
    /\ call = NoCall
    /\ served = 0
    /\ failed = {}
    /\ faults = 0

\* the database before the first call: every session is active, has no
\* report yet and has rows in the three related tables
ReportInit ==
    /\ session \in [Sessions ->
                      [exists : {TRUE}, active : {TRUE}, report_url : {<<>>},
                       teacher_id : Teachers]]
    /\ related = [s \in Sessions |-> {Tables[t] : t \in 1..Len(Tables)}]
    /\ reports = {}
    /\ call = NoCall
    /\ served = 0
    /\ failed = {}
    /\ faults = 0

\* a session_id that matches no row of table "session"
NoSuchSession == 0

\* the row with id sid exists
Exists(sid) == sid \in Sessions /\ session[sid].exists

\* POST /generate-report?session_id=s
ReportCall ==
    /\ UNCHANGED vars
    /\ call.at \in {"none", "done"}
    /\ served < NumCalls
    /\ served' = served + 1
    /\ \E s \in Sessions \cup {NoSuchSession} :
          call' = [NoCall EXCEPT !.kind = "report", !.sid = s,
                                 !.at = "deactivate", !.attempts = <<s>>]
    /\ UNCHANGED <<session, related, reports, failed, faults>>

\* POST /cleanup-unused-sessions?user_id=u
CleanupCall ==
    /\ UNCHANGED vars
    /\ call.at \in {"none", "done"}
    /\ served < NumCalls
    /\ served' = served + 1
    /\ \E u \in Teachers :
          call' = [NoCall EXCEPT !.kind = "cleanup", !.user = u, !.at = "select"]
    /\ UNCHANGED <<session, related, reports, failed, faults>>

\* a selection that forgets the filter on column active
SelectAll(u) ==
    {s \in Sessions : session[s].exists /\ session[s].teacher_id = u}
\* line 211: select("*").eq("active", True).eq("teacher_id", user_id)
Select(u) ==
    {s \in Sessions : /\ session[s].exists
                      /\ session[s].active
                      /\ session[s].teacher_id = u}

\* the orders in which the rows of a set may be returned
Orders(S) ==
    {q \in [1..Cardinality(S) -> S] : \A a, b \in DOMAIN q : a # b => q[a] # q[b]}

\* a Supabase request goes wrong
Fault == faults < MaxFaults /\ faults' = faults + 1

\* the call ends with a response
Respond(k, code, msg) ==
    [k EXCEPT !.at = "done", !.status = code, !.detail = msg]

\* the sessions of list q for which an earlier generate_report raised after
\* its deactivation step
Stale(q) == {s \in failed : \E k \in DOMAIN q : q[k] = s}

\* cleanup_unused_sessions, lines 210-219
SelectActive ==
    /\ UNCHANGED vars
    /\ call.kind = "cleanup"
    /\ call.at = "select"
    /\ \/ \* the query raises, lines 213-214
          /\ Fault
          /\ call' = Respond(call, 500, "Failed to fetch active sessions")
       \/ /\ \E q \in Orders(Select(call.user)) :
                call' =
                   IF q = <<>>
                   THEN [Respond(call, 200, "No active sessions found")
                            EXCEPT !.active_sessions = q]
                   ELSE [call EXCEPT !.active_sessions = q, !.idx = 1,
                                     !.sid = q[1], !.at = "deactivate",
                                     !.attempts = <<q[1]>>, !.stale = Stale(q)]
          /\ UNCHANGED faults
    /\ UNCHANGED <<session, related, reports, served, failed>>

\* an error inside the loop that is not caught
CaughtNever(kind) == FALSE
\* lines 223-231: cleanup_unused_sessions catches what generate_report raises
Caught(kind) == kind = "cleanup"

\* the loop of lines 221-231 goes on with the next session, or lines 233-236
NextSession(k) ==
    IF k.idx < Len(k.active_sessions)
    THEN [k EXCEPT !.idx = @ + 1, !.sid = k.active_sessions[k.idx + 1],
                   !.at = "deactivate", !.public_url = <<>>,
                   !.attempts = Append(@, k.active_sessions[k.idx + 1])]
    ELSE [Respond(k, 200, "sessions cleaned up and reports generated")
             EXCEPT !.count = Len(k.cleaned)]

\* generate_report raises HTTPException(code, msg) at the step k is at
ReportRaises(k, code, msg) ==
    /\ call' = LET f == [k EXCEPT !.raised = @ \cup {k.sid}]
               IN IF Caught(k.kind) THEN NextSession(f) ELSE Respond(f, code, msg)
    /\ failed' = IF k.at = "deactivate" THEN failed ELSE failed \cup {k.sid}

\* lines 106-114: update session set active = False
Deactivate ==
    /\ UNCHANGED vars
    /\ call.at = "deactivate"
    /\ \/ \* the request raises
          /\ Fault
          /\ ReportRaises(call, 500, "Failed to update session")
          /\ UNCHANGED session
       \/ /\ UNCHANGED faults
          /\ IF Exists(call.sid)
             THEN /\ session' = [session EXCEPT ![call.sid].active = FALSE]
                  /\ call' = [call EXCEPT !.at = StepAfter("deactivate")]
                  /\ UNCHANGED failed
             ELSE \* no row matched: the 404 of line 112 is raised inside the
                  \* try block and wrapped by the except clause, lines 113-114
                  /\ ReportRaises([call EXCEPT !.nomatch = TRUE], 500,
                                  "Failed to update session")
                  /\ UNCHANGED session
    /\ UNCHANGED <<related, reports, served>>

\* lines 117-123: rpc get_session_report
FetchReport ==
    /\ UNCHANGED vars
    /\ call.at = "fetch"
    /\ \/ /\ Fault
          /\ ReportRaises(call, 500, "Supabase RPC error")
       \/ /\ Fault
          /\ ReportRaises(call, 404, "No data found for this session")
       \/ /\ call' = [call EXCEPT !.at = StepAfter("fetch")]
          /\ UNCHANGED <<faults, failed>>
    /\ UNCHANGED <<session, related, reports, served>>

\* lines 126-139: the CSV is uploaded to bucket "reports"
UploadCsv ==
    /\ UNCHANGED vars
    /\ call.at = "upload"
    /\ \/ /\ Fault
          /\ ReportRaises(call, 500, "Upload failed")
          /\ UNCHANGED reports
       \/ /\ reports' = reports \cup {ReportPath(call.sid)}
          /\ call' = [call EXCEPT !.at = StepAfter("upload")]
          /\ UNCHANGED <<faults, failed>>
    /\ UNCHANGED <<session, related, served>>

\* lines 142-145
GetPublicUrl ==
    /\ UNCHANGED vars
    /\ call.at = "url"
    /\ \/ /\ Fault
          /\ ReportRaises(call, 500, "Failed to get public URL")
       \/ /\ call' = [call EXCEPT !.public_url = ReportUrl(ReportPath(call.sid)),
                                  !.at = StepAfter("url")]
          /\ UNCHANGED <<faults, failed>>
    /\ UNCHANGED <<session, related, reports, served>>

\* lines 148-156: update session set report_url
RecordUrl ==
    /\ UNCHANGED vars
    /\ call.at = "record"
    /\ \/ /\ Fault
          /\ ReportRaises(call, 500, "Failed to update session")
          /\ UNCHANGED session
       \/ /\ UNCHANGED faults
          /\ IF Exists(call.sid)
             THEN /\ session' = [session EXCEPT
                                    ![call.sid].report_url = call.public_url]
                  /\ call' = [call EXCEPT !.at = StepAfter("record")]
                  /\ UNCHANGED failed
             ELSE \* no row matched: the 404 of line 154 is wrapped likewise,
                  \* lines 155-156
                  /\ ReportRaises([call EXCEPT !.nomatch = TRUE], 500,
                                  "Failed to update session")
                  /\ UNCHANGED session
    /\ UNCHANGED <<related, reports, served>>

\* lines 159-170: one of the three deletions, its error only logged
DeleteRelated ==
    /\ UNCHANGED vars
    /\ call.at \in {"delete1", "delete2", "delete3"}
    /\ LET t == CASE call.at = "delete1" -> Tables[1]
                  [] call.at = "delete2" -> Tables[2]
                  [] call.at = "delete3" -> Tables[3]
           sid == call.sid
       IN \/ /\ related' = [related EXCEPT ![sid] = @ \ {t}]
             /\ call' = [call EXCEPT !.deleted = @ \cup {<<sid, t>>},
                                     !.at = StepAfter(@)]
             /\ UNCHANGED faults
          \/ /\ Fault
             /\ call' = [call EXCEPT !.skipped = @ \cup {<<sid, t>>},
                                     !.at = StepAfter(@)]
             /\ UNCHANGED related
    /\ UNCHANGED <<session, reports, served, failed>>

\* lines 172-176, and lines 225-229 when called by cleanup_unused_sessions
ReturnReport ==
    /\ UNCHANGED vars
    /\ call.at = "return"
    /\ call' =
          IF call.kind = "cleanup"
          THEN NextSession([call EXCEPT !.cleaned =
                               Append(@, [session_id |-> call.sid,
                                          report_url |-> call.public_url])])
          ELSE Respond(call, 200, "Report uploaded and session updated")
    /\ UNCHANGED <<session, related, reports, served, failed, faults>>

ReportNext ==
    \/ ReportCall
    \/ CleanupCall
    \/ SelectActive
    \/ Deactivate
    \/ FetchReport
    \/ UploadCsv
    \/ GetPublicUrl
    \/ RecordUrl
    \/ DeleteRelated
    \/ ReturnReport

allVars == <<vars, repVars>>

\* the upload pipeline alone
UploadInit == Init /\ ReportIdle
Spec == UploadInit /\ [][Next]_allVars

\* the report endpoints alone
ReportOnlyInit == Init /\ ReportInit
SpecReport == ReportOnlyInit /\ [][ReportNext]_allVars

\* ------------------------------------------------------------ properties
Terminal(r) == pc[r] \in {"Completed", "Failed"}

\* a raster page file: f"{...}_{idx}.png"
IsRaster(p) == Len(p) > 0 /\ p[Len(p)] = ".png"

\* raster page files written by request r that are still on disk
RastersLeft(r) == {p \in touched[r] \cap disk : IsRaster(p)}

\* the upload of some page of request r raised
UploadFailed(r) == pc[r] = "Failed" /\ detail[r] = "Image upload failed"

\* the conversion of request r raised (in the transcoder, the renderer or a save)
ConversionFailed(r) == step[r] = "raised"

\* C1: a request that completes after its conversion yielded P raster pages
\* returns exactly P URLs, the i-th URL being the public URL of the object
\* images/<group>/<basename of page i-1>, and none of the P raster files is
\* left on disk.
C1_AllPagesPublishedInOrder ==
    \A r \in Reqs :
        pc[r] = "Completed" =>
            /\ Len(image_paths[r]) = images[r]
            /\ Len(body[r]) = images[r]
            /\ \A i \in 1..images[r] :
                  /\ image_paths[r][i]
                        = pdf_path(r) \o <<"_", ToString(i - 1), ".png">>
                  /\ body[r][i]
                        = SUPABASE_URL
                          \o <<"/storage/v1/object/public/presentations/",
                               "images/", folder_id[r], "/">>
                          \o BaseName(image_paths[r][i])
                  /\ image_paths[r][i] \notin disk
            /\ RastersLeft(r) = {}

C1_Witness ==
    \E r \in Reqs : pc[r] = "Completed" /\ images[r] = 2 /\ Len(body[r]) = 2

\* C2: a request whose declared media type is neither application/pdf nor the
\* pptx type is rejected with status 400 "Unsupported file type" before
\* save_temp_file runs: it never stages, writes, reads or uploads anything.
C2_UnsupportedRejectedBeforeStaging ==
    \A r \in Reqs :
        (pc[r] # "Idle" /\ ctype[r] \notin {PDF_TYPE, PPTX_TYPE}) =>
            /\ pc[r] \in {"Received", "Failed"}
            /\ file_path[r] = <<>>
            /\ touched[r] = {}
            /\ objects[r] = {}
            /\ \A p \in disk : \A i \in 1..Len(p) : p[i] # Uuid(r, 1)
            /\ pc[r] = "Failed" =>
                  status[r] = 400 /\ detail[r] = "Unsupported file type"

C2_Witness ==
    \E r \in Reqs :
        /\ ctype[r] = "text/plain"
        /\ pc[r] = "Failed"
        /\ status[r] = 400
        /\ disk # {}

\* C3: the staged file of a staged request exists until the Converting phase
\* ends and is removed exactly once when it ends, whether the conversion
\* returned or raised: in Uploading, Completed and in Failed after Converting
\* the staged file does not exist.
C3_StagedFileRemovedOnce ==
    \A r \in Reqs :
        /\ (pc[r] \in {"Staged", "Converting"}) =>
              (file_path[r] \in disk /\ removals[r] = 0)
        /\ (pc[r] \in {"Uploading", "Completed"}
             \/ (pc[r] = "Failed" /\ step[r] # "none")) =>
              (file_path[r] \notin disk /\ removals[r] = 1)

C3_Witness ==
    \E r \in Reqs :
        /\ pc[r] = "Failed"
        /\ step[r] = "raised"
        /\ removals[r] = 1
        /\ file_path[r] \notin disk

\* C4: after upload_images_to_supabase finished, by returning or by raising
\* at page k, none of the raster files passed to it exists on local disk.
C4_NoRasterSurvivesUpload ==
    \A r \in Reqs :
        (pc[r] = "Completed" \/ UploadFailed(r)) =>
            \A i \in 1..Len(image_paths[r]) : image_paths[r][i] \notin disk

\* C5: when a request whose conversion raised reaches Failed, no raster file
\* and no staged file of that request remains on disk.
C5_NoOrphanAfterFailedConversion ==
    \A r \in Reqs :
        (pc[r] = "Failed" /\ ConversionFailed(r)) =>
            /\ RastersLeft(r) = {}
            /\ file_path[r] \notin disk

\* C6: once the conversion of a request raised, the request never enters
\* Uploading: it uploads no object, builds and returns no URL, and ends
\* Failed with status 500.
C6_NoUploadAfterFailedConversion ==
    \A r \in Reqs :
        ConversionFailed(r) =>
            /\ pc[r] \in {"Converting", "Failed"}
            /\ public_urls[r] = <<>>
            /\ body[r] = <<>>
            /\ objects[r] = {}
            /\ pc[r] = "Failed" => status[r] = 500

C6_Witness ==
    \E r \in Reqs :
        /\ pc[r] = "Failed"
        /\ ConversionFailed(r)
        /\ images[r] = 2
        /\ Len(image_paths[r]) = 1

\* C7: a slide-deck request whose transcoder exited non-zero or produced no
\* output file ends Failed with status 500 "PPTX conversion failed", returns
\* no URL, uploads nothing and leaves no raster file and no staged file.
C7_TranscodeFailureFailsRequest ==
    \A r \in Reqs :
        transcode[r] \in {"nonzero", "no_output"} =>
            /\ pc[r] \in {"Converting", "Failed"}
            /\ objects[r] = {}
            /\ body[r] = <<>>
            /\ Terminal(r) =>
                  /\ status[r] = 500
                  /\ detail[r] = "PPTX conversion failed"
                  /\ RastersLeft(r) = {}
                  /\ file_path[r] \notin disk

\* C8: when the upload of page k raises, the request fails with status 500
\* "Image upload failed" and returns no URL; exactly the objects of pages
\* 0..k-1 are in the store (no rollback) and no object of page k or of a
\* later page is ever stored.
C8_UploadFailureAborts ==
    \A r \in Reqs :
        UploadFailed(r) =>
            LET k == Len(public_urls[r])
                Dest(i) == DestPath(folder_id[r], image_paths[r][i])
            IN /\ status[r] = 500
               /\ body[r] = <<>>
               /\ k < Len(image_paths[r])
               /\ objects[r] = {Dest(i) : i \in 1..k}
               /\ \A i \in 1..k : Dest(i) \in store
               /\ \A i \in (k + 1)..Len(image_paths[r]) : Dest(i) \notin store

C8_Witness ==
    \E r \in Reqs :
        /\ UploadFailed(r)
        /\ Len(image_paths[r]) = 2
        /\ Len(public_urls[r]) = 1
        /\ Cardinality(store) = 1

\* C9: any two requests that were given a group id have distinct group ids,
\* and the sets of object paths they uploaded to are disjoint, also for the
\* same filename and media type.
C9_DistinctGroups ==
    \A r1, r2 \in Reqs :
        (r1 # r2 /\ folder_id[r1] # "none" /\ folder_id[r2] # "none") =>
            /\ folder_id[r1] # folder_id[r2]
            /\ objects[r1] \cap objects[r2] = {}

C9_Witness ==
    \E r1, r2 \in Reqs :
        /\ r1 # r2
        /\ ctype[r1] = ctype[r2]
        /\ filename[r1] = filename[r2]
        /\ objects[r1] # {}
        /\ objects[r2] # {}

\* C10: the local paths two different requests create, read, upload or
\* delete (staged files, intermediate PDFs, raster pages) are disjoint, and
\* staged paths of different requests differ, also for identical filenames.
C10_NoSharedPaths ==
    \A r1, r2 \in Reqs :
        r1 # r2 =>
            /\ touched[r1] \cap touched[r2] = {}
            /\ (file_path[r1] # <<>> /\ file_path[r2] # <<>>) =>
                  /\ file_path[r1] # file_path[r2]
                  /\ ReplacePptx(file_path[r1]) # ReplacePptx(file_path[r2])
                  /\ LibreOfficeOut(file_path[r1]) # LibreOfficeOut(file_path[r2])

C10_Witness ==
    \E r1, r2 \in Reqs :
        /\ r1 # r2
        /\ ctype[r1] = PPTX_TYPE /\ ctype[r2] = PPTX_TYPE
        /\ filename[r1] = filename[r2]
        /\ pc[r1] = "Converting" /\ pc[r2] = "Converting"
        /\ transcode[r1] = "ok" /\ transcode[r2] = "ok"
        /\ image_paths[r1] # <<>>
        /\ image_paths[r2] # <<>>

\* C11: a request changes phase only along Idle, Received, Staged,
\* Converting, Uploading, Completed, or from Received, Converting or
\* Uploading to Failed.  It is staged only with an accepted media type,
\* starts uploading only after its conversion returned every page, completes
\* only with every page uploaded, and once Completed or Failed none of its
\* fields and none of its files or objects changes any more.
PhaseSteps ==
    { <<"Idle", "Received">>, <<"Received", "Staged">>, <<"Received", "Failed">>,
      <<"Staged", "Converting">>, <<"Converting", "Uploading">>,
      <<"Converting", "Failed">>, <<"Uploading", "Completed">>,
      <<"Uploading", "Failed">> }

C11_PhaseOrder ==
    [][\A r \in Reqs :
          /\ pc'[r] # pc[r] =>
                /\ <<pc[r], pc'[r]>> \in PhaseSteps
                /\ pc'[r] = "Staged" =>
                      (ctype[r] \in {PDF_TYPE, PPTX_TYPE} /\ status[r] = 0)
                /\ pc'[r] = "Uploading" =>
                      /\ step[r] = "returned"
                      /\ Len(image_paths[r]) = images[r]
                      /\ objects[r] = {}
                /\ pc'[r] = "Completed" =>
                      /\ Cardinality(objects[r]) = images[r]
                      /\ Len(body'[r]) = images[r]
                /\ pc'[r] # "Completed" => body'[r] = <<>>
          /\ pc[r] \in {"Completed", "Failed"} =>
                /\ pc'[r] = pc[r]
                /\ step'[r] = step[r] /\ images'[r] = images[r]
                /\ image_paths'[r] = image_paths[r]
                /\ public_urls'[r] = public_urls[r]
                /\ status'[r] = status[r] /\ detail'[r] = detail[r]
                /\ body'[r] = body[r]
                /\ touched'[r] = touched[r] /\ objects'[r] = objects[r]
                /\ removals'[r] = removals[r]
    ]_vars

C11_Witness ==
    \E r1, r2 \in Reqs :
        /\ pc[r1] = "Completed"
        /\ pc[r2] = "Failed" /\ step[r2] = "returned"

\* C12: the i-th URL (i = 0..P-1) returned by a completed request with staged
\* file T and group G is SUPABASE_URL, the public prefix of bucket
\* presentations, and images/G/<basename of the rasterized document>_i.png;
\* the part after "presentations/" is an object path the request uploaded;
\* for a PDF the rasterized document is the staged file T.
C12_UrlForm ==
    \A r \in Reqs :
        pc[r] = "Completed" =>
            LET doc == IF ctype[r] = PDF_TYPE
                       THEN <<Uuid(r, 1), "_">> \o BaseName(filename[r])
                       ELSE BaseName(pdf_path(r))
                obj(i) == <<"images/", folder_id[r], "/">> \o doc
                          \o <<"_", ToString(i), ".png">>
            IN /\ DOMAIN body[r] = 1..images[r]
               /\ \A i \in 0..(images[r] - 1) :
                     /\ body[r][i + 1]
                           = <<"https://project.supabase.co",
                               "/storage/v1/object/public/presentations/">>
                             \o obj(i)
                     /\ obj(i) \in objects[r]
                     /\ obj(i) \in store
               /\ objects[r] = {obj(i) : i \in 0..(images[r] - 1)}

C12_Witness ==
    \E r \in Reqs :
        /\ pc[r] = "Completed"
        /\ ctype[r] = PDF_TYPE
        /\ Len(body[r]) = 2
        /\ Cardinality(store) = 2

\* C13: for every staged slide-deck path the document handed to the
\* rasterizer is the PDF the transcoder writes.
C13_RasterizerGetsTranscoderOutput ==
    \A r \in Reqs :
        (ctype[r] = PPTX_TYPE /\ file_path[r] # <<>>) =>
            ReplacePptx(file_path[r]) = LibreOfficeOut(file_path[r])

\* C14: between the iterations of the upload loop, and after the loop was
\* left by a failed upload, the raster files of the request on disk are
\* exactly the pages whose upload has not succeeded, and every page that is
\* gone from the disk has its object in the store.
C14_StreamingCleanup ==
    \A r \in Reqs :
        (pc[r] = "Uploading" \/ UploadFailed(r)) =>
            LET k == Len(public_urls[r])
                n == Len(image_paths[r])
            IN /\ RastersLeft(r) = {image_paths[r][i] : i \in (k + 1)..n}
               /\ Cardinality(RastersLeft(r)) = n - k
               /\ \A i \in 1..k :
                     /\ image_paths[r][i] \notin disk
                     /\ DestPath(folder_id[r], image_paths[r][i]) \in store

C14_Witness ==
    \E r \in Reqs :
        /\ pc[r] = "Uploading"
        /\ Len(image_paths[r]) = 2
        /\ Len(public_urls[r]) = 1

\* C15: once the transcoder succeeded for a slide deck whose name ends in
\* ".pptx", the PDF it wrote stays on disk in every later state, also when
\* the request is Completed or Failed, while the staged file is gone then.
C15_IntermediatePdfLeft ==
    \A r \in Reqs :
        (/\ ctype[r] = PPTX_TYPE
         /\ filename[r][Len(filename[r])] = ".pptx"
         /\ transcode[r] = "ok") =>
            /\ UPLOAD_DIR \o <<Uuid(r, 1), "_">>
                 \o SubSeq(filename[r], 1, Len(filename[r]) - 1) \o <<".pdf">>
                    \in disk
            /\ Terminal(r) => file_path[r] \notin disk

C15_Witness ==
    \E r \in Reqs :
        /\ ctype[r] = PPTX_TYPE
        /\ filename[r] = <<"deck", ".pptx">>
        /\ transcode[r] = "ok"
        /\ pc[r] = "Completed"
        /\ disk = {<<"uploads/", Uuid(r, 1), "_", "deck", ".pdf">>}

\* C16: a request in Converting does not hold the event loop: whenever the
\* loop is idle the next request can be received, a received request can be
\* validated and staged whatever the other requests are doing, and so two
\* requests can be in Converting at once.
C16_ConversionOffTheLoop ==
    \A r \in Reqs :
        /\ pc[r] = "Converting" => loop # r
        /\ (pc[r] = "Idle" /\ loop = 0 /\ \A q \in Reqs : q < r => pc[q] # "Idle")
              => ENABLED Receive(r)
        /\ pc[r] = "Received" => ENABLED (RejectType(r) \/ save_temp_file(r))
        /\ pc[r] = "Staged" => ENABLED Dispatch(r)

C16_Witness ==
    \E r1, r2 \in Reqs :
        /\ r1 # r2
        /\ pc[r1] = "Converting" /\ step[r1] \in {"transcode", "render", "save"}
        /\ pc[r2] = "Converting" /\ step[r2] \in {"transcode", "render", "save"}
AllTables == {Tables[n] : n \in 1..Len(Tables)}
\* the tables on which the call being served has made its deletion for
\* session s, whether the deletion went through or failed
Handled(s) == {t \in AllTables : <<s, t>> \in call.deleted \cup call.skipped}

\* C17: rows of poll-response, attendance and leaderboard of a session are
\* deleted only once its CSV report is in the bucket and its report_url is
\* recorded; an invocation of generate_report that raised has deleted nothing;
\* a deletion that fails is skipped, the remaining deletions are still made
\* and the request answers 200.
C17_DeleteOnlyAfterReportRecorded ==
    /\ \A s \in Sessions :
          related[s] # AllTables =>
             /\ ReportPath(s) \in reports
             /\ session[s].report_url = ReportUrl(ReportPath(s))
    /\ \A s \in call.raised : Handled(s) = {}
    /\ call.at = "delete2" => Tables[1] \in Handled(call.sid)
    /\ call.at = "delete3" => {Tables[1], Tables[2]} \subseteq Handled(call.sid)
    /\ call.at = "return" => Handled(call.sid) = AllTables
    /\ \A s \in Sessions :
          (\E t \in AllTables : <<s, t>> \in call.skipped) =>
             /\ s \notin call.raised
             /\ (call.at = "done" => Handled(s) = AllTables)
             /\ (call.at = "done" /\ call.kind = "report" => call.status = 200)
             /\ (call.at = "done" /\ call.kind = "cleanup" =>
                    \E n \in DOMAIN call.cleaned : call.cleaned[n].session_id = s)

\* a request has answered 200 although its second deletion failed, and the
\* other two deletions were made
C17_Witness ==
    /\ call.kind = "report"
    /\ call.at = "done"
    /\ call.status = 200
    /\ call.skipped = {<<call.sid, Tables[2]>>}
    /\ call.deleted = {<<call.sid, Tables[1]>>, <<call.sid, Tables[3]>>}
    /\ related[call.sid] = {Tables[2]}


\* C18: when the session update of generate_report matches no row, the request
\* answers 404 "Session update failed" and runs no later step.
C18_NoRowAnswers404 ==
    (call.kind = "report" /\ call.nomatch) =>
        /\ call.at = "done"
        /\ call.status = 404
        /\ call.detail = "Session update failed"
        /\ call.public_url = <<>>
        /\ call.deleted \cup call.skipped = {}
        /\ ReportPath(call.sid) \notin reports

\* the ids of list q that are not in set R, in the order of q
Without(q, R) == SelectSeq(q, LAMBDA s : s \notin R)

\* C19: cleanup_unused_sessions calls generate_report once for every active
\* session of the teacher, in the order in which the sessions were fetched;
\* an invocation that raises does not end the loop; the returned list holds
\* exactly the sessions whose invocation returned, each inactive and with its
\* report_url, and the message counts them.
C19_CleanupAttemptsAllReturnsSuccesses ==
    (call.kind = "cleanup" /\ call.active_sessions # <<>>) =>
        LET q == call.active_sessions IN
        /\ \A a, b \in DOMAIN q : a # b => q[a] # q[b]
        /\ \A a \in DOMAIN q : session[q[a]].teacher_id = call.user
        /\ (call.idx = 1 /\ call.at = "deactivate" =>
               {q[a] : a \in DOMAIN q} =
                  {s \in Sessions : /\ session[s].active
                                    /\ session[s].teacher_id = call.user})
        /\ call.attempts = SubSeq(q, 1, call.idx)
        /\ Len(call.cleaned) =
              Len(Without(IF call.at = "done" THEN q
                          ELSE SubSeq(q, 1, call.idx - 1), call.raised))
        /\ \A n \in DOMAIN call.cleaned :
              LET s == call.cleaned[n].session_id IN
              /\ s = Without(q, call.raised)[n]
              /\ ~session[s].active
              /\ session[s].report_url = call.cleaned[n].report_url
              /\ call.cleaned[n].report_url = ReportUrl(ReportPath(s))
        /\ call.at = "done" =>
              /\ call.attempts = q
              /\ call.status = 200
              /\ call.detail = "sessions cleaned up and reports generated"
              /\ call.count = Len(call.cleaned)
              /\ \A a \in DOMAIN q :
                    session[q[a]].active => q[a] \in call.raised

\* a cleanup of two sessions has ended: the invocation for the first one
\* raised, the second one is in the returned list
C19_Witness ==
    /\ call.kind = "cleanup"
    /\ call.at = "done"
    /\ Len(call.active_sessions) = 2
    /\ call.raised = {call.active_sessions[1]}
    /\ Len(call.cleaned) = 1
    /\ call.cleaned[1].session_id = call.active_sessions[2]
    /\ call.count = 1

\* a session that carries a report_url, or has lost rows of the three tables
\* to generate_report, is inactive
ReportedIsInactive ==
    \A s \in Sessions :
        (session[s].report_url # <<>> \/ related[s] # AllTables) =>
            ~session[s].active

\* C20 as stated: generate_report deactivates first and never reactivates; a
\* session with a report_url or with deleted rows is inactive; a session for
\* which generate_report raised after its deactivation step stays inactive
\* and without report_url; no later cleanup selects it.
C20_FailedStaysWithoutReportUrl ==
    /\ ReportedIsInactive
    /\ \A s \in failed : ~session[s].active /\ session[s].report_url = <<>>
    /\ call.stale = {}

\* C20 amended: generate_report deactivates first and no step sets a session
\* active again; a session with a report_url or with deleted rows is
\* inactive; a session for which generate_report raised after its
\* deactivation step stays inactive and no later cleanup selects it; the
\* invocation that raises writes nothing to the session, so that such a
\* session carries a report_url exactly when another invocation for the same
\* id got through its report_url step.
C20_DeactivatedForGood ==
    /\ [](/\ ReportedIsInactive
          /\ \A s \in failed : ~session[s].active
          /\ \A s \in Sessions :
                session[s].report_url # <<>> =>
                   /\ ReportPath(s) \in reports
                   /\ session[s].report_url = ReportUrl(ReportPath(s))
          /\ call.stale = {}
          /\ \A n \in DOMAIN call.active_sessions :
                call.active_sessions[n] \notin failed \/
                call.active_sessions[n] \in call.raised)
    /\ [][\A s \in Sessions : ~session[s].active => ~session'[s].active]_allVars
    /\ [][(call.at # "deactivate" /\ call'.raised # call.raised /\ call'.raised # {})
             => /\ session' = session
                /\ ~session[call.sid].active]_allVars

\* a cleanup for the teacher of a session has ended after generate_report
\* raised for that session past its deactivation step: the session was not
\* fetched, it is inactive and has no report_url
C20_Witness ==
    /\ call.kind = "cleanup"
    /\ call.at = "done"
    /\ \E s \in failed :
          /\ session[s].teacher_id = call.user
          /\ ~session[s].active
          /\ session[s].report_url = <<>>
          /\ \A n \in DOMAIN call.active_sessions : call.active_sessions[n] # s

====
